---- MODULE Spec2Model ----
(***************************************************************************)
(* A model of src/kohonen.py: the self-organising map (classes Neuron and  *)
(* SOM), its training operations (compute, learn, MSE) and its inverse     *)
(* queries (find_hand_position_v1/v2/v3, mouvement_v1/v2/v3).              *)
(*                                                                         *)
(* Numbers.  The program computes with IEEE doubles.  The model computes   *)
(* with exact rationals <<n, d>> (d > 0, lowest terms) for + - * /, and    *)
(* rounds the two transcendental steps to a binary grid, as a float does   *)
(* to its own grid: a square root is rounded down to a multiple of         *)
(* 1/SqrtScale and math.exp to the nearest positive multiple of            *)
(* 1/ExpScale.  The two non-finite doubles the code can produce are kept:  *)
(* NaN is <<0, 0>> and +-inf is <<+-1, 0>>.                                *)
(***************************************************************************)
EXTENDS Integers, Sequences, FiniteSets, TLC

\* ------------------------------------------------------------------ bounds
\* Grid of the map under study: gridsize = (Rows, Cols).
Rows == 2
Cols == 2
\* Number of seeds of the weight generator used by the constructor.
NumSeeds == 3
\* Number of calls of SOM.learn in one behaviour.
MaxLearn == 1
\* Longest data set handed to SOM.MSE.
MaxSamples == 1
\* Largest nb_steps handed to mouvement_v1/v2/v3.
MaxSteps == 3
\* Number of times a caller repeats a query.
MaxRepeat == 1
\* Binary digits kept by a square root and by math.exp.
SqrtBits == 3
ExpBits == 3

SqrtScale == 2 ^ SqrtBits
ExpScale == 2 ^ ExpBits

\* ------------------------------------------------------------ arithmetic
Abs(a) == IF a < 0 THEN -a ELSE a

RECURSIVE GCD(_, _)
GCD(a, b) == IF b = 0 THEN a ELSE GCD(b, a % b)

LCM(a, b) ==
    IF b % a = 0 THEN b ELSE IF a % b = 0 THEN a ELSE (a \div GCD(a, b)) * b

\* The rational n/d in lowest terms (d > 0).
Rat(n, d) == LET g == GCD(Abs(n), d) IN <<n \div g, d \div g>>

Zero == <<0, 1>>
One == <<1, 1>>
NaN == <<0, 0>>
Inf(s) == <<s, 0>>

IsFinite(a) == a[2] # 0
IsNaN(a) == a = NaN
Sign(a) == IF a[1] > 0 THEN 1 ELSE IF a[1] < 0 THEN -1 ELSE 0

FNeg(a) == <<-a[1], a[2]>>

\* a + b, a - b and a * a for finite a and b, as fractions left unreduced: the
\* steps of a sum of squares, which is reduced once, when its root is taken.
UAdd(a, b) ==
    LET l == LCM(a[2], b[2]) IN <<a[1] * (l \div a[2]) + b[1] * (l \div b[2]), l>>
USub(a, b) ==
    LET l == LCM(a[2], b[2]) IN <<a[1] * (l \div a[2]) - b[1] * (l \div b[2]), l>>
USq(a) == <<a[1] * a[1], a[2] * a[2]>>

\* a + b on doubles.
FAdd(a, b) ==
    IF IsFinite(a) /\ IsFinite(b)
    THEN LET u == UAdd(a, b) IN Rat(u[1], u[2])
    ELSE IF IsNaN(a) \/ IsNaN(b) THEN NaN
    ELSE IF ~IsFinite(a) /\ ~IsFinite(b) /\ a # b THEN NaN
    ELSE IF IsFinite(a) THEN b ELSE a

FSub(a, b) == FAdd(a, FNeg(b))

\* a * b on doubles.
FMul(a, b) ==
    IF IsFinite(a) /\ IsFinite(b)
    THEN LET g1 == GCD(Abs(a[1]), b[2])
             g2 == GCD(Abs(b[1]), a[2])
         IN <<(a[1] \div g1) * (b[1] \div g2), (a[2] \div g2) * (b[2] \div g1)>>
    ELSE IF IsNaN(a) \/ IsNaN(b) \/ Sign(a) = 0 \/ Sign(b) = 0 THEN NaN
    ELSE Inf(Sign(a) * Sign(b))

\* a / b on numpy doubles: 0/0 is nan and x/0 is +-inf, without an exception.
FDiv(a, b) ==
    IF IsNaN(a) \/ IsNaN(b) THEN NaN
    ELSE IF ~IsFinite(b) THEN (IF IsFinite(a) THEN Zero ELSE NaN)
    ELSE IF ~IsFinite(a) THEN (IF Sign(b) < 0 THEN FNeg(a) ELSE a)
    ELSE IF b[1] = 0 THEN (IF a[1] = 0 THEN NaN ELSE Inf(Sign(a)))
    ELSE FMul(a, IF b[1] < 0 THEN <<-b[2], -b[1]>> ELSE <<b[2], b[1]>>)

\* a < b and a <= b on doubles (false when either is nan).
FLt(a, b) ==
    IF IsNaN(a) \/ IsNaN(b) THEN FALSE
    ELSE IF IsFinite(a) /\ IsFinite(b)
    THEN LET l == LCM(a[2], b[2])
         IN a[1] * (l \div a[2]) < b[1] * (l \div b[2])
    ELSE IF ~IsFinite(a) THEN a[1] < 0 /\ a # b
    ELSE b[1] > 0

FLe(a, b) == ~IsNaN(a) /\ ~IsNaN(b) /\ ~FLt(b, a)

Int2F(n) == <<n, 1>>

\* pow(a, 2): a is in lowest terms, and so is its square.
Sq(a) == IF IsFinite(a) THEN <<a[1] * a[1], a[2] * a[2]>> ELSE FMul(a, a)

\* The largest m with m*m <= n.
ISqrt(n) == CHOOSE m \in 0..n : m * m <= n /\ n < (m + 1) * (m + 1)

\* floor(r * 2^k / d) for 0 <= r < d, one binary digit at a time.
RECURSIVE FracBits(_, _, _)
FracBits(r, d, k) ==
    IF k = 0 THEN 0
    ELSE LET b == IF 2 * r >= d THEN 1 ELSE 0
         IN b * (2 ^ (k - 1)) + FracBits(2 * r - b * d, d, k - 1)

\* floor(a * 2^k) for a finite a >= 0.
FloorScaled(a, k) == (a[1] \div a[2]) * (2 ^ k) + FracBits(a[1] % a[2], a[2], k)

\* pow(a, 0.5) and the square root inside numpy.linalg.norm, for a >= 0:
\* rounded down to a multiple of 1/SqrtScale.
Sqrt(a) == Rat(ISqrt(FloorScaled(a, 2 * SqrtBits)), SqrtScale)

\* Fixed-point exponential series: the sum of the terms t, t*n/(m*i), ...
RECURSIVE ExpSeries(_, _, _, _)
ExpSeries(t, n, m, i) ==
    IF t = 0 THEN 0 ELSE t + ExpSeries((t * n) \div (m * i), n, m, i + 1)

ExpPrecision == 1000

\* math.exp(-a) for a finite a >= 0: 1/exp(a), rounded to the nearest positive
\* multiple of 1/ExpScale (exp never returns 0 on the arguments reached).
ExpNeg(a) ==
    LET e == ExpSeries(ExpPrecision, a[1], a[2], 1)
        r == (2 * ExpScale * ExpPrecision + e) \div (2 * e)
    IN Rat(IF r < 1 THEN 1 ELSE r, ExpScale)

\* ------------------------------------------------------------ the objects
VARIABLES
    map,          \* SOM.map: position -> Neuron (weights, posx, posy, y)
    activitymap,  \* SOM.activitymap: position -> double
    call,         \* the last method called on the SOM, with its arguments
    result,       \* what that call returned or raised
    locals,       \* the locals of that call when it returned
    nlearn,       \* the number of SOM.learn calls so far
    repeats       \* the number of times the caller has repeated its last query

vars == <<map, activitymap, call, result, locals, nlearn, repeats>>

\* SOM((2, 2), (Rows, Cols)), as the driver constructs it (line 394).
inputsize == <<2, 2>>
gridsize == <<Rows, Cols>>
Dim == inputsize[1] * inputsize[2]
NCells == gridsize[1] * gridsize[2]
Pos == (0..(gridsize[1] - 1)) \X (0..(gridsize[2] - 1))

\* A vector given in quarters.
Vec(s) == [i \in 1..Len(s) |-> Rat(s[i], 4)]

\* The sum of the squares of the first i coordinates of u - v.
RECURSIVE SumSqDiff(_, _, _)
SumSqDiff(u, v, i) ==
    IF i = 0 THEN Zero ELSE UAdd(SumSqDiff(u, v, i - 1), USq(USub(u[i], v[i])))

\* numpy.linalg.norm(u - v).
NormDiff(u, v) == Sqrt(SumSqDiff(u, v, Len(u)))

\* The exact squared Euclidean distance between two vectors.
Dist2(u, v) == LET s == SumSqDiff(u, v, Len(u)) IN Rat(s[1], s[2])

\* numpy.random.random(inputsize): the draws a seed produces for the i-th
\* neuron created (i + seed < 16).  Every weight lies in [0, 1), and two
\* neurons of one map never get the same first two weights.
RandomWeights(seed, i) ==
    LET n == i + seed
    IN Vec(<< 2 * (n % 2) + ((n \div 4) % 2),
              2 * ((n \div 2) % 2) + ((n \div 8) % 2),
              (3 * n) % 4,
              ((n \div 2) + 1) % 4 >>)

\* Neuron.__init__.
NewNeuron(w, posx, posy) == [weights |-> w, posx |-> posx, posy |-> posy, y |-> Zero]

\* Neuron.compute: y = norm(x - weights).
NeuronCompute(n, x) == [n EXCEPT !.y = NormDiff(x, n.weights)]

\* math.exp(-((|posx - posxbmu| + |posy - posybmu|) ** 2) / (2 * sigma * sigma)).
Kernel(n, sigma, posxbmu, posybmu) ==
    LET d == Abs(n.posx - posxbmu) + Abs(n.posy - posybmu)
    IN ExpNeg(FDiv(Int2F(d * d), FMul(Int2F(2), FMul(sigma, sigma))))

\* Neuron.learn with a second assignment, self.y = norm(x - self.weights),
\* after line 68: a learn that refreshes the stored activation.
NeuronLearnRefreshesY(n, eta, sigma, posxbmu, posybmu, x) ==
    LET h == FMul(eta, Kernel(n, sigma, posxbmu, posybmu))
        w == [i \in 1..Len(n.weights) |->
                FAdd(n.weights[i], FMul(h, FSub(x[i], n.weights[i])))]
    IN [n EXCEPT !.weights = w, !.y = NormDiff(x, w)]

\* Neuron.learn with the difference of line 68 reversed, (self.weights - x).
NeuronLearnReversed(n, eta, sigma, posxbmu, posybmu, x) ==
    LET h == FMul(eta, Kernel(n, sigma, posxbmu, posybmu))
    IN [n EXCEPT !.weights =
            [i \in 1..Len(n.weights) |->
                FAdd(n.weights[i], FMul(h, FSub(n.weights[i], x[i])))]]

\* Neuron.learn: weights += eta * kernel * (x - weights).
NeuronLearn(n, eta, sigma, posxbmu, posybmu, x) ==
    LET h == FMul(eta, Kernel(n, sigma, posxbmu, posybmu))
    IN [n EXCEPT !.weights =
            [i \in 1..Len(n.weights) |->
                FAdd(n.weights[i], FMul(h, FSub(x[i], n.weights[i])))]]

\* The flat (row-major) index of a position, and numpy.unravel_index(i, gridsize).
Flat(p) == p[1] * gridsize[2] + p[2]
Unravel(i) == <<i \div gridsize[2], i % gridsize[2]>>

\* The loops "for posx in range(gridsize[0]): for posy in range(gridsize[1])":
\* the grid whose cell at each position p holds f[p], filled in row-major order.
RECURSIVE GridFrom(_, _)
GridFrom(f, i) ==
    IF i = NCells - 1 THEN Unravel(i) :> f[Unravel(i)]
    ELSE (Unravel(i) :> f[Unravel(i)]) @@ GridFrom(f, i + 1)

Grid(f) == GridFrom(f, 0)

\* The map after the loop of SOM.compute: every neuron has computed x.
ComputeMap(m, x) == Grid([p \in Pos |-> NeuronCompute(m[p], x)])

\* SOM.compute without line 117: the activity map is left as it was.
ComputeActivityStale(m, am, x) == am

\* The activity map after the loop of SOM.compute (line 117).
ComputeActivity(m, am, x) ==
    LET cm == ComputeMap(m, x) IN Grid([p \in Pos |-> cm[p].y])

ArgMin(am) ==
    CHOOSE i \in 0..(NCells - 1) :
        \A j \in 0..(NCells - 1) :
            /\ j < i => FLt(am[Unravel(i)], am[Unravel(j)])
            /\ j > i => FLe(am[Unravel(i)], am[Unravel(j)])

\* Line 130: the winner read from the activity map as it stands.
Bmu(am) == Unravel(ArgMin(am))

\* SOM.learn with line 130 reading the activations of its own x (a
\* self.compute(x) before the argmin) instead of the activity map as it stands.
LearnMapFreshWinner(m, am, eta, sigma, x) ==
    LET bmu == Bmu(ComputeActivity(m, am, x))
    IN Grid([p \in Pos |-> NeuronLearn(m[p], eta, sigma, bmu[1], bmu[2], x)])

\* The map after SOM.learn.
LearnMap(m, am, eta, sigma, x) ==
    LET bmu == Bmu(am)
    IN Grid([p \in Pos |-> NeuronLearn(m[p], eta, sigma, bmu[1], bmu[2], x)])

\* Line 240 with activitymap[0][0] for numpy.min(activitymap).
MinActivityFirstCell(am) == am[<<0, 0>>]

\* numpy.min(activitymap).
MinActivity(am) == am[Unravel(ArgMin(am))]

\* The loop of SOM.MSE over X[i..]: [map, activitymap, s].
RECURSIVE MSELoop(_, _, _, _, _)
MSELoop(m, am, s, X, i) ==
    IF i > Len(X) THEN [map |-> m, activitymap |-> am, s |-> s]
    ELSE LET m2 == ComputeMap(m, X[i])
             am2 == ComputeActivity(m, am, X[i])
         IN MSELoop(m2, am2, FAdd(s, Sq(MinActivity(am2))), X, i + 1)

\* ------------------------------------------------------------- dispersion
\* abs(a.weights[0] - b.weights[0]) ** 2 + abs(a.weights[1] - b.weights[1]) ** 2
\* (the square of a difference is the square of its absolute value).
SquaredGap(a, b) ==
    LET s == UAdd(USq(USub(a.weights[1], b.weights[1])),
                  USq(USub(a.weights[2], b.weights[2])))
    IN Rat(s[1], s[2])

\* SOM.get_distance_with_neighbor(posx, posy): the previous row when there is
\* one, else (elif) the next row when there is one; the same for the columns.
GetDistanceWithNeighbor(m, posx, posy) ==
    LET rowpart ==
            IF posx # 0 THEN SquaredGap(m[<<posx - 1, posy>>], m[<<posx, posy>>])
            ELSE IF posx # gridsize[1] - 1
                 THEN SquaredGap(m[<<posx, posy>>], m[<<posx + 1, posy>>])
                 ELSE Zero
        colpart ==
            IF posy # 0 THEN SquaredGap(m[<<posx, posy - 1>>], m[<<posx, posy>>])
            ELSE IF posy # gridsize[2] - 1
                 THEN SquaredGap(m[<<posx, posy>>], m[<<posx, posy + 1>>])
                 ELSE Zero
    IN FAdd(FAdd(Zero, rowpart), colpart)

\* The loops of SOM.get_map_dispertion over the first i cells in row-major
\* order: distanceTotal.
RECURSIVE DispertionLoop(_, _)
DispertionLoop(m, i) ==
    IF i = 0 THEN Zero
    ELSE FAdd(DispertionLoop(m, i - 1),
              GetDistanceWithNeighbor(m, Unravel(i - 1)[1], Unravel(i - 1)[2]))

\* SOM.get_map_dispertion().
GetMapDispertionValue(m) == DispertionLoop(m, NCells)

\* --------------------------------------------------------- inverse queries
\* pow(pow(w[0] - q[0], 2) + pow(w[1] - q[1], 2), 0.5): the distance of a
\* neuron to the query point in the first two weight coordinates.
QDist(n, q) ==
    Sqrt(UAdd(USq(USub(n.weights[1], q[1])), USq(USub(n.weights[2], q[2]))))

NoLocals == [closest_index |-> <<>>, closest_values |-> <<>>, dist |-> <<>>,
             queries |-> <<>>]

Raise(e) == [status |-> e, value |-> <<>>, locals |-> NoLocals]

\* Line 282 with <= for <: a neuron as close as the closest so far replaces it.
V1CloserOrEqual(d, closest_value) == FLe(d, closest_value)

\* Line 282: the test that makes a neuron the new closest one.
V1Closer(d, closest_value) == FLt(d, closest_value)

\* Lines 280-284: the scan of find_hand_position_v1 from flat index i on.
RECURSIVE V1Scan(_, _, _, _)
V1Scan(m, q, best, i) ==
    IF i = NCells THEN best
    ELSE LET d == QDist(m[Unravel(i)], q)
         IN V1Scan(m, q,
                   IF V1Closer(d, best.value)
                   THEN [value |-> d, index |-> Unravel(i)]
                   ELSE best,
                   i + 1)

\* find_hand_position_v1(map, motrice_position).
FindV1(m, q) ==
    LET b == V1Scan(m, q, [value |-> QDist(m[<<0, 0>>], q), index |-> <<0, 0>>], 0)
        w == m[b.index].weights
    IN [status |-> "ok",
        value |-> << <<w[1], w[2]>>, <<w[3], w[4]>> >>,
        locals |-> [NoLocals EXCEPT !.closest_index = b.index]]

\* list.sort(key=lambda x: x[1]): a stable sort of (position, distance) pairs.
RECURSIVE InsertSorted(_, _)
InsertSorted(s, e) ==
    IF s = <<>> THEN <<e>>
    ELSE IF FLt(e[2], s[Len(s)][2])
         THEN Append(InsertSorted(SubSeq(s, 1, Len(s) - 1), e), s[Len(s)])
         ELSE Append(s, e)

RECURSIVE StableSort(_)
StableSort(s) ==
    IF Len(s) <= 1 THEN s
    ELSE InsertSorted(StableSort(SubSeq(s, 1, Len(s) - 1)), s[Len(s)])

\* Python's s[j]: j counts from the end when negative, IndexError outside.
PyIndexOk(s, j) == -Len(s) <= j /\ j < Len(s)
PyIdx(s, j) == IF j < 0 THEN Len(s) + j + 1 ELSE j + 1

\* Lines 299 and 325 with index 0 for nb_values - 1: the best entry is replaced.
ReplaceBest(cv, nb_values, e) == [cv EXCEPT ![1] = e]

\* Lines 299 and 325: closest_values[nb_values - 1] = e.
ReplaceWorst(cv, nb_values, e) == [cv EXCEPT ![PyIdx(cv, nb_values - 1)] = e]

\* Lines 293-300 (and 319-326): the scan that keeps the nb_values closest
\* neurons, from flat index i on.
RECURSIVE KScan(_, _, _, _, _)
KScan(m, q, nb_values, cv, i) ==
    IF i = NCells THEN [status |-> "ok", cv |-> cv]
    ELSE LET p == Unravel(i)
             d == QDist(m[p], q)
         IN IF Len(cv) < nb_values
            THEN KScan(m, q, nb_values, StableSort(Append(cv, <<p, d>>)), i + 1)
            ELSE IF ~PyIndexOk(cv, nb_values - 1)
            THEN [status |-> "IndexError", cv |-> cv]
            ELSE IF FLt(d, cv[PyIdx(cv, nb_values - 1)][2])
            THEN KScan(m, q, nb_values,
                       StableSort(ReplaceWorst(cv, nb_values, <<p, d>>)), i + 1)
            ELSE KScan(m, q, nb_values, cv, i + 1)

\* The sum of f[1..n], added left to right from 0.
RECURSIVE FSum(_, _)
FSum(f, n) == IF n = 0 THEN Zero ELSE FAdd(FSum(f, n - 1), f[n])

\* find_hand_position_v2(map, motrice_position, nb_values).
FindV2(m, q, nb_values) ==
    LET r == KScan(m, q, nb_values, <<>>, 0)
        cv == r.cv
    IN IF r.status # "ok" THEN Raise(r.status)
       ELSE IF nb_values > Len(cv) THEN Raise("IndexError")
       ELSE LET xs == [i \in 1..nb_values |-> m[cv[i][1]].weights[3]]
                ys == [i \in 1..nb_values |-> m[cv[i][1]].weights[4]]
            IN [status |-> "ok",
                value |-> << [i \in 1..nb_values |-> cv[i][1]],
                             << FDiv(FSum(xs, nb_values), Int2F(nb_values)),
                                FDiv(FSum(ys, nb_values), Int2F(nb_values)) >> >>,
                locals |-> [NoLocals EXCEPT !.closest_values = cv]]

\* Line 335: dist = (1 - closest_values[i][1] / total_distance) / (nb_values - 1).
InterpWeight(d, total_distance, nb_values) ==
    FDiv(FSub(One, FDiv(d, total_distance)), Int2F(nb_values - 1))

\* find_hand_position_v3(map, motrice_position, nb_values).
FindV3(m, q, nb_values) ==
    LET r == KScan(m, q, nb_values, <<>>, 0)
        cv == r.cv
    IN IF r.status # "ok" THEN Raise(r.status)
       ELSE IF nb_values > Len(cv) THEN Raise("IndexError")
       ELSE LET total_distance == FSum([i \in 1..nb_values |-> cv[i][2]], nb_values)
                dist == [i \in 1..nb_values |->
                            InterpWeight(cv[i][2], total_distance, nb_values)]
                xs == [i \in 1..nb_values |-> FMul(m[cv[i][1]].weights[3], dist[i])]
                ys == [i \in 1..nb_values |-> FMul(m[cv[i][1]].weights[4], dist[i])]
            IN [status |-> "ok",
                value |-> << [i \in 1..nb_values |-> cv[i][1]],
                             << FSum(xs, nb_values), FSum(ys, nb_values) >> >>,
                locals |-> [NoLocals EXCEPT !.closest_values = cv, !.dist = dist]]

\* The neighbour counts written in mouvement_v2 and mouvement_v3.
V2LoopK == 4
V2LastK == 3
V3LoopK == 4
V3LastK == 3

\* range(nb_steps - 1) has this many indices.
LoopCount(nb_steps) == IF nb_steps > 1 THEN nb_steps - 1 ELSE 0

\* Lines 346-347 with nb_steps for nb_steps - 1: the fractions index/nb_steps.
StepPointOverSteps(from_pos, to_pos, nb_steps, index) ==
    LET f == FDiv(Int2F(index), Int2F(nb_steps))
    IN << FAdd(from_pos[1], FMul(f, FSub(to_pos[1], from_pos[1]))),
          FAdd(from_pos[2], FMul(f, FSub(to_pos[2], from_pos[2]))) >>

\* Lines 346-347: the query point of loop index `index`.
StepPoint(from_pos, to_pos, nb_steps, index) ==
    LET f == FDiv(Int2F(index), Int2F(nb_steps - 1))
    IN << FAdd(from_pos[1], FMul(f, FSub(to_pos[1], from_pos[1]))),
          FAdd(from_pos[2], FMul(f, FSub(to_pos[2], from_pos[2]))) >>

\* The query points of a mouvement call, in the order they are queried.
StepPoints(from_pos, to_pos, nb_steps) ==
    [i \in 1..(LoopCount(nb_steps) + 1) |->
        IF i <= LoopCount(nb_steps)
        THEN StepPoint(from_pos, to_pos, nb_steps, i - 1)
        ELSE <<to_pos[1], to_pos[2]>>]

\* The loop and the final query of a mouvement method, from the i-th query
\* point on: hand_steps, or the first exception a query raises.  pos_hands[i]
\* is what the method's query returns at pts[i].
RECURSIVE HandSteps(_, _, _, _)
HandSteps(pos_hands, pts, i, hand_steps) ==
    IF i > Len(pts)
    THEN [status |-> "ok", value |-> hand_steps,
          locals |-> [NoLocals EXCEPT !.queries = pts]]
    ELSE LET pos_hand == pos_hands[i]
         IN IF pos_hand.status # "ok" THEN Raise(pos_hand.status)
            ELSE HandSteps(pos_hands, pts, i + 1,
                           Append(hand_steps, <<pos_hand.value[1], pos_hand.value[2]>>))

\* mouvement_v1(map, from_pos, to_pos, nb_steps).
MouvementV1(m, from_pos, to_pos, nb_steps) ==
    LET pts == StepPoints(from_pos, to_pos, nb_steps)
    IN HandSteps([i \in 1..Len(pts) |-> FindV1(m, pts[i])], pts, 1, <<>>)

\* mouvement_v2(map, from_pos, to_pos, nb_steps): 4 neighbours in the loop,
\* 3 in the final query.
MouvementV2(m, from_pos, to_pos, nb_steps) ==
    LET pts == StepPoints(from_pos, to_pos, nb_steps)
    IN HandSteps([i \in 1..Len(pts) |->
                     FindV2(m, pts[i], IF i = Len(pts) THEN V2LastK ELSE V2LoopK)],
                 pts, 1, <<>>)

\* mouvement_v3(map, from_pos, to_pos, nb_steps): 4 neighbours in the loop,
\* 3 in the final query.
MouvementV3(m, from_pos, to_pos, nb_steps) ==
    LET pts == StepPoints(from_pos, to_pos, nb_steps)
    IN HandSteps([i \in 1..Len(pts) |->
                     FindV3(m, pts[i], IF i = Len(pts) THEN V3LastK ELSE V3LoopK)],
                 pts, 1, <<>>)

\* ------------------------------------------------------------- the inputs
\* Training samples (4 coordinates each), learning rates and neighbourhood widths.
Samples == { Vec(<<0, 0, 0, 1>>), Vec(<<2, 2, 4, 0>>) }
\* The (eta, sigma) a caller trains with: eta in (0, 1], sigma > 0.
Rates == { <<Rat(1, 2), One>>, <<One, Int2F(4)>> }
\* The data X handed to SOM.MSE is a prefix of this stream of samples.
DataStream(i) == IF i % 2 = 1 THEN Vec(<<0, 0, 0, 1>>) ELSE Vec(<<2, 2, 4, 0>>)
DataSets == { [i \in 1..n |-> DataStream(i)] : n \in 0..MaxSamples }

\* Query points (motrice positions), and the (from_pos, to_pos) of a movement.
Queries == { Vec(<<1, 1>>), Vec(<<0, 0>>), Vec(<<3, 0>>) }
Moves == { <<Vec(<<0, 0>>), Vec(<<3, 0>>)>>, <<Vec(<<1, 1>>), Vec(<<0, 0>>)>>,
           <<Vec(<<3, 0>>), Vec(<<3, 0>>)>> }

\* nb_values handed to find_hand_position_v2/v3, and nb_steps handed to mouvement.
NbValues == (-1)..(NCells + 1)
NbSteps == (-1)..MaxSteps

NoCall ==
    [op |-> "init", x |-> <<>>, eta |-> Zero, sigma |-> Zero, data |-> <<>>,
     pos |-> <<>>, to |-> <<>>, k |-> 0, n |-> 0]

NoResult == [status |-> "none", value |-> <<>>]
Returned == [status |-> "ok", value |-> <<>>]

\* ------------------------------------------------------------ the actions
\* The map built by the loops of SOM.__init__ (lines 91-104).
InitMap(seed) ==
    Grid([p \in Pos |-> NewNeuron(RandomWeights(seed, Flat(p)), p[1], p[2])])

\* SOM.__init__: every amline entry is the new neuron's y.
Init ==
    /\ \E seed \in 0..(NumSeeds - 1) :
          /\ map = InitMap(seed)
          /\ activitymap = Grid([p \in Pos |-> InitMap(seed)[p].y])
    /\ call = NoCall
    /\ result = NoResult
    /\ locals = NoLocals
    /\ nlearn = 0
    /\ repeats = 0

\* SOM.compute(x).
Compute(x) ==
    /\ map' = ComputeMap(map, x)
    /\ activitymap' = ComputeActivity(map, activitymap, x)
    /\ call' = [NoCall EXCEPT !.op = "compute", !.x = x]
    /\ result' = Returned
    /\ locals' = NoLocals
    /\ UNCHANGED <<nlearn, repeats>>

\* SOM.learn(eta, sigma, x).
Learn(eta, sigma, x) ==
    /\ nlearn < MaxLearn
    /\ map' = LearnMap(map, activitymap, eta, sigma, x)
    /\ call' = [NoCall EXCEPT !.op = "learn", !.x = x, !.eta = eta, !.sigma = sigma]
    /\ result' = Returned
    /\ locals' = NoLocals
    /\ nlearn' = nlearn + 1
    /\ UNCHANGED <<activitymap, repeats>>

\* SOM.MSE(X): s / nsamples raises ZeroDivisionError on an empty data set.
MSE(X) ==
    LET r == MSELoop(map, activitymap, Zero, X, 1)
    IN /\ map' = r.map
       /\ activitymap' = r.activitymap
       /\ call' = [NoCall EXCEPT !.op = "MSE", !.data = X]
       /\ result' = IF Len(X) = 0
                    THEN [status |-> "ZeroDivisionError", value |-> <<>>]
                    ELSE [status |-> "ok", value |-> FDiv(r.s, Int2F(Len(X)))]
       /\ locals' = NoLocals
       /\ UNCHANGED <<nlearn, repeats>>

\* A query method that leaves its distances in the neurons it scans (an
\* assignment to map[i][j].y in the scan loop).
QueryWritesActivations ==
    /\ map' = Grid([p \in Pos |-> [map[p] EXCEPT !.y = QDist(map[p], call'.pos)]])
    /\ UNCHANGED <<activitymap, nlearn>>

\* SOM.get_map_dispertion(): reads the map, writes nothing.
GetMapDispertion ==
    /\ call' = [NoCall EXCEPT !.op = "get_map_dispertion"]
    /\ result' = [status |-> "ok", value |-> GetMapDispertionValue(map)]
    /\ locals' = NoLocals
    /\ UNCHANGED <<map, activitymap, nlearn, repeats>>

\* The names of the query methods.
QueryOps ==
    { "find_hand_position_v1", "find_hand_position_v2", "find_hand_position_v3",
      "mouvement_v1", "mouvement_v2", "mouvement_v3" }

\* No query has been made yet.
Unqueried == call.op \notin QueryOps

\* The caller makes the query call c: its first query, or its last query once
\* more with the same arguments.
Caller(c) ==
    /\ call' = c
    /\ \/ Unqueried /\ repeats' = 0
       \/ call = c /\ repeats < MaxRepeat /\ repeats' = repeats + 1

\* What a query method writes to the SOM: nothing (lines 276-383 assign to
\* no attribute of self, of the map or of a neuron).
QueryWrites == UNCHANGED <<map, activitymap, nlearn>>

\* A query method returns (or raises) r.
Return(r) ==
    /\ result' = [status |-> r.status, value |-> r.value]
    /\ locals' = r.locals
    /\ QueryWrites

FindHandPositionV1(q) ==
    /\ Caller([NoCall EXCEPT !.op = "find_hand_position_v1", !.pos = q])
    /\ Return(FindV1(map, q))

FindHandPositionV2(q, k) ==
    /\ Caller([NoCall EXCEPT !.op = "find_hand_position_v2", !.pos = q, !.k = k])
    /\ Return(FindV2(map, q, k))

FindHandPositionV3(q, k) ==
    /\ Caller([NoCall EXCEPT !.op = "find_hand_position_v3", !.pos = q, !.k = k])
    /\ Return(FindV3(map, q, k))

MouvementV1Call(from_pos, to_pos, n) ==
    /\ Caller([NoCall EXCEPT !.op = "mouvement_v1", !.pos = from_pos, !.to = to_pos, !.n = n])
    /\ Return(MouvementV1(map, from_pos, to_pos, n))

MouvementV2Call(from_pos, to_pos, n) ==
    /\ Caller([NoCall EXCEPT !.op = "mouvement_v2", !.pos = from_pos, !.to = to_pos, !.n = n])
    /\ Return(MouvementV2(map, from_pos, to_pos, n))

MouvementV3Call(from_pos, to_pos, n) ==
    /\ Caller([NoCall EXCEPT !.op = "mouvement_v3", !.pos = from_pos, !.to = to_pos, !.n = n])
    /\ Return(MouvementV3(map, from_pos, to_pos, n))

ComputeStep == \E x \in Samples : Compute(x)
LearnStep == \E r \in Rates, x \in Samples : Learn(r[1], r[2], x)
MSEStep == \E X \in DataSets : MSE(X)
FindV1Step == \E q \in Queries : FindHandPositionV1(q)
FindV2Step == \E q \in Queries, k \in NbValues : FindHandPositionV2(q, k)
FindV3Step == \E q \in Queries, k \in NbValues : FindHandPositionV3(q, k)
MouvementV1Step == \E mv \in Moves, n \in NbSteps : MouvementV1Call(mv[1], mv[2], n)
MouvementV2Step == \E mv \in Moves, n \in NbSteps : MouvementV2Call(mv[1], mv[2], n)
MouvementV3Step == \E mv \in Moves, n \in NbSteps : MouvementV3Call(mv[1], mv[2], n)

\* Training: the calls that write to the map.
Next == ComputeStep \/ LearnStep \/ MSEStep

Spec == Init /\ [][Next]_vars

\* Querying a map, trained or not: the map is built, trained by up to MaxLearn
\* steps, then queried, and the query may be repeated.
NextQuery ==
    \/ Unqueried /\ LearnStep
    \/ FindV1Step
    \/ FindV2Step
    \/ FindV3Step
    \/ MouvementV1Step
    \/ MouvementV2Step
    \/ MouvementV3Step

SpecQuery == Init /\ [][NextQuery]_vars

\* Measuring a map, trained or not: the map is built and trained, and then its
\* dispersion is read.
Unmeasured == call.op # "get_map_dispertion"

NextDispersion ==
    \/ Unmeasured /\ ComputeStep
    \/ Unmeasured /\ LearnStep
    \/ Unmeasured /\ MSEStep
    \/ Unmeasured /\ GetMapDispertion

SpecDispersion == Init /\ [][NextDispersion]_vars

\* ------------------------------------------------------------- properties
Seeds == 0..(NumSeeds - 1)

\* y is the distance between u and v as a square root returns it: the largest
\* multiple of 1/SqrtScale whose square does not exceed |u - v|^2.
IsDistance(y, u, v) ==
    LET d2 == Dist2(u, v)
    IN /\ FLe(Zero, y)
       /\ FLe(Sq(y), d2)
       /\ FLt(d2, Sq(FAdd(y, Rat(1, SqrtScale))))

\* The input of the last activation pass, when the last call made one.
LastInput ==
    IF call.op = "compute" THEN <<call.x>>
    ELSE IF call.op = "MSE" /\ Len(call.data) > 0 THEN <<call.data[Len(call.data)]>>
    ELSE <<>>

\* C1: after any sequence of construction, compute, learn and MSE calls, the
\* activity map entry at every position equals the y stored in the neuron at
\* that position; and after an activation pass on x (compute(x), or MSE ending
\* with x) that value is the distance between x and the neuron's weights.
C1_ActivityMapMirrorsNeurons ==
    /\ DOMAIN activitymap = Pos
    /\ \A p \in Pos : activitymap[p] = map[p].y
    /\ \A i \in 1..Len(LastInput) : \A p \in Pos :
          IsDistance(activitymap[p], LastInput[i], map[p].weights)

\* C1 happens: a compute after a learn, giving two neurons different non-zero
\* activations.
C1_Witness ==
    /\ call.op = "compute"
    /\ nlearn > 0
    /\ \E p, q \in Pos :
          /\ activitymap[p] # Zero
          /\ activitymap[q] # Zero
          /\ activitymap[p] # activitymap[q]

\* C2: SOM.learn changes only weights: after it every neuron's (posx, posy) is
\* still its index in the map, the grid and the weight vectors keep their
\* shape, and every neuron's y and every activity map entry are as before.
C2_LearnChangesOnlyWeights ==
    [][nlearn' = nlearn + 1 =>
         /\ DOMAIN map' = Pos
         /\ DOMAIN activitymap' = Pos
         /\ activitymap' = activitymap
         /\ \A p \in Pos :
               /\ map'[p].posx = p[1]
               /\ map'[p].posy = p[2]
               /\ map'[p].y = map[p].y
               /\ DOMAIN map'[p].weights = DOMAIN map[p].weights]_vars

\* C2 happens: a learn has returned on a map whose activations were non-zero,
\* and it has changed the weights of a neuron.
C2_Witness ==
    /\ call.op = "learn"
    /\ \E p \in Pos :
          /\ map[p].y # Zero
          /\ activitymap[p] = map[p].y
          /\ \A seed \in Seeds : map[p].weights # RandomWeights(seed, Flat(p))

\* The step is a learn(eta, sigma, x) that directly follows compute(x), with
\* eta in (0, 1] and sigma > 0.
LearnAfterCompute ==
    /\ call.op = "compute"
    /\ call'.op = "learn"
    /\ call'.x = call.x
    /\ FLt(Zero, call'.eta) /\ FLe(call'.eta, One)
    /\ FLt(Zero, call'.sigma)

\* The squared distances of the winner of the activity map to x, before and
\* after the step.
WinnerBefore == Dist2(call.x, map[Bmu(activitymap)].weights)
WinnerAfter == Dist2(call.x, map'[Bmu(activitymap)].weights)

AfterComputeLearn(seed) ==
    LET m1 == ComputeMap(InitMap(seed), call.x)
    IN /\ call.op = "learn"
       /\ activitymap = ComputeActivity(InitMap(seed), activitymap, call.x)
       /\ map = LearnMap(m1, activitymap, call.eta, call.sigma, call.x)

KOps == { "find_hand_position_v2", "find_hand_position_v3" }
MouvementOps == { "mouvement_v1", "mouvement_v2", "mouvement_v3" }

\* The positions of a list of (position, distance) pairs.
Positions(cv) == [i \in 1..Len(cv) |-> cv[i][1]]

\* C4: for every map, query point and nb_values with 1 <= nb_values <=
\* rows*cols, the list closest_values built by find_hand_position_v2/v3 has
\* exactly nb_values entries, at pairwise distinct grid positions, each with
\* the distance of its neuron to the query; it is sorted ascending by distance,
\* and every distance in it is <= the distance of every neuron not in it.
C4_KNearestList ==
    (call.op \in KOps /\ 1 <= call.k /\ call.k <= NCells) =>
        LET cv == locals.closest_values
            returned == { cv[i][1] : i \in 1..Len(cv) }
        IN /\ result.status = "ok"
           /\ Len(cv) = call.k
           /\ result.value[1] = Positions(cv)
           /\ returned \subseteq Pos
           /\ \A i, j \in 1..Len(cv) : i # j => cv[i][1] # cv[j][1]
           /\ \A i \in 1..Len(cv) : cv[i][2] = QDist(map[cv[i][1]], call.pos)
           /\ \A i, j \in 1..Len(cv) : i < j => FLe(cv[i][2], cv[j][2])
           /\ \A i \in 1..Len(cv) : \A p \in Pos \ returned :
                 FLe(cv[i][2], QDist(map[p], call.pos))

\* C4 happens: a k-nearest query on a trained map with 1 < nb_values <
\* rows*cols, whose list holds a neuron scanned after the first nb_values ones
\* (an entry has been replaced) and distances that are not all equal.
C4_Witness ==
    /\ call.op \in KOps
    /\ nlearn > 0
    /\ 1 < call.k /\ call.k < NCells
    /\ result.status = "ok"
    /\ LET cv == locals.closest_values
       IN /\ \E i \in 1..Len(cv) : Flat(cv[i][1]) >= call.k
          /\ cv[1][2] # cv[Len(cv)][2]

\* The first position, in row-major order, among those nearest to q.
FirstNearest(m, q) ==
    CHOOSE p \in Pos : \A r \in Pos :
        /\ Flat(r) < Flat(p) => FLt(QDist(m[p], q), QDist(m[r], q))
        /\ Flat(r) > Flat(p) => FLe(QDist(m[p], q), QDist(m[r], q))

\* C5: for every map and query point, the position selected by
\* find_hand_position_v1 is the single position selected by
\* find_hand_position_v2 with nb_values = 1, and both are the first position
\* in row-major order among the neurons at the minimal distance.
C5_NearestAgreesWithK1 ==
    /\ call.op = "find_hand_position_v1" =>
          /\ result.status = "ok"
          /\ <<locals.closest_index>> = FindV2(map, call.pos, 1).value[1]
          /\ locals.closest_index = FirstNearest(map, call.pos)
    /\ (call.op = "find_hand_position_v2" /\ call.k = 1) =>
          /\ result.status = "ok"
          /\ result.value[1] = <<FindV1(map, call.pos).locals.closest_index>>
          /\ result.value[1] = <<FirstNearest(map, call.pos)>>

\* C5 happens: find_hand_position_v1 on a map where a neuron scanned after the
\* selected one is at exactly the same, minimal, distance.
C5_Witness ==
    /\ call.op = "find_hand_position_v1"
    /\ result.status = "ok"
    /\ \E p \in Pos :
          /\ Flat(p) > Flat(locals.closest_index)
          /\ QDist(map[p], call.pos) = QDist(map[locals.closest_index], call.pos)

\* from_pos + (i / (n - 1)) * (to_pos - from_pos).
Interpolate(from_pos, to_pos, n, i) ==
    [c \in 1..2 |->
        FAdd(from_pos[c], FMul(Rat(i, n - 1), FSub(to_pos[c], from_pos[c])))]

\* The query point of the i-th point (i = 1..n) of the last mouvement call.
QueryPoint(i) ==
    IF i < call.n THEN Interpolate(call.pos, call.to, call.n, i - 1)
    ELSE <<call.to[1], call.to[2]>>

\* What the strategy of a mouvement method returns at q with k neighbours.
Estimate(op, m, q, k) ==
    CASE op = "mouvement_v1" -> FindV1(m, q)
      [] op = "mouvement_v2" -> FindV2(m, q, k)
      [] op = "mouvement_v3" -> FindV3(m, q, k)

\* The point a mouvement method appends for an estimate e.
HandStep(e) == <<e.value[1], e.value[2]>>

\* C6: for nb_steps >= 2, mouvement_v1/v2/v3 returns exactly nb_steps points;
\* point i, for i in 0..nb_steps-2, is the method's estimate at
\* from_pos + (i/(nb_steps-1)) * (to_pos - from_pos), in increasing order of
\* i, and the last point is its estimate at exactly to_pos.
C6_MouvementInterpolates ==
    (call.op \in MouvementOps /\ call.n >= 2) =>
        /\ result.status = "ok"
        /\ Len(result.value) = call.n
        /\ Len(locals.queries) = call.n
        /\ \A i \in 1..call.n :
              /\ locals.queries[i] = QueryPoint(i)
              /\ \E k \in 1..NCells :
                    LET e == Estimate(call.op, map, QueryPoint(i), k)
                    IN e.status = "ok" /\ result.value[i] = HandStep(e)

\* C6 happens: a mouvement of at least 3 steps between two different points
\* of a trained map, whose points are not all the same.
C6_Witness ==
    /\ call.op \in MouvementOps
    /\ nlearn > 0
    /\ call.n >= 3
    /\ call.pos # call.to
    /\ result.status = "ok"
    /\ Len(result.value) = call.n
    /\ result.value[1] # result.value[call.n]
    /\ locals.queries[2] # call.pos /\ locals.queries[2] # call.to

\* C7 as stated: every point of the trajectory a mouvement method returns is
\* the estimate of one strategy with one neighbour count k at that point's
\* query point; for nb_steps = 2 the result is [estimate(from_pos),
\* estimate(to_pos)] with the same k in both.
C7_AsStated ==
    (call.op \in MouvementOps /\ call.n >= 2 /\ result.status = "ok") =>
        \E k \in 1..NCells :
            \A i \in 1..Len(result.value) :
                LET e == Estimate(call.op, map, locals.queries[i], k)
                IN e.status = "ok" /\ result.value[i] = HandStep(e)

\* C8: the query methods are read-only on the map: after any of them returns,
\* every neuron (weights, position, y) and the activity map are as before, and
\* the same call made again with no learn in between returns the same result.
C8_QueriesReadOnly ==
    [][call'.op \in QueryOps =>
         /\ map' = map
         /\ activitymap' = activitymap
         /\ repeats' = repeats + 1 => (call' = call /\ result' = result)]_vars

\* C8 happens: a query on a trained map has returned a value and has been
\* made a second time.
C8_Witness ==
    /\ call.op \in QueryOps
    /\ nlearn > 0
    /\ repeats > 0
    /\ result.status = "ok"

\* C9 as stated: in find_hand_position_v3 with nb_values >= 2 the weights
\* (1 - d_i/sum(d))/(nb_values - 1) of the selected neighbours sum to exactly
\* 1, and a neighbour at a smaller distance never gets a smaller weight than
\* one at a larger distance.
C9_AsStated ==
    (call.op = "find_hand_position_v3" /\ call.k >= 2 /\ result.status = "ok") =>
        LET cv == locals.closest_values
            dist == locals.dist
        IN /\ FSum(dist, Len(dist)) = One
           /\ \A i, j \in 1..Len(cv) :
                 FLt(cv[i][2], cv[j][2]) => ~FLt(dist[i], dist[j])

\* C10 as stated: for nb_values >= 2, when the nb_values nearest neurons are
\* all at the same distance from the query, the estimate of
\* find_hand_position_v3 equals that of find_hand_position_v2.
C10_AsStated ==
    (/\ call.op = "find_hand_position_v3" /\ call.k >= 2 /\ result.status = "ok"
     /\ \A i, j \in 1..Len(locals.closest_values) :
           locals.closest_values[i][2] = locals.closest_values[j][2]) =>
        result.value = FindV2(map, call.pos, call.k).value

\* The squared gaps between every neuron and its +row neighbour and its +column
\* neighbour, over the first i cells in row-major order: every orthogonally
\* adjacent pair once.
RECURSIVE AdjacentPairsOnce(_, _)
AdjacentPairsOnce(m, i) ==
    IF i = 0 THEN Zero
    ELSE LET p == Unravel(i - 1)
             down == IF <<p[1] + 1, p[2]>> \in Pos
                     THEN SquaredGap(m[p], m[<<p[1] + 1, p[2]>>]) ELSE Zero
             right == IF <<p[1], p[2] + 1>> \in Pos
                      THEN SquaredGap(m[p], m[<<p[1], p[2] + 1>>]) ELSE Zero
         IN FAdd(AdjacentPairsOnce(m, i - 1), FAdd(down, right))

\* C11 as stated: get_map_dispertion returns the sum, over every pair of
\* orthogonally adjacent neurons, of the squared difference of their first two
\* weights, each pair counted exactly once.
C11_AsStated ==
    call.op = "get_map_dispertion" =>
        result.value = AdjacentPairsOnce(map, NCells)

\* C12 as stated: find_hand_position_v2/v3 called with nb_values < 1 or
\* nb_values > rows*cols fails with the error InvalidK, returning no neighbour
\* list and no estimate.
C12_AsStated ==
    (call.op \in KOps /\ (call.k < 1 \/ call.k > NCells)) =>
        /\ result.status = "InvalidK"
        /\ result.value = <<>>

\* C13 as stated: find_hand_position_v3 called with nb_values = 1 fails with
\* the error InvalidK instead of returning an estimate.
C13_AsStated ==
    (call.op = "find_hand_position_v3" /\ call.k = 1) =>
        /\ result.status = "InvalidK"
        /\ result.value = <<>>

\* C14 as stated: mouvement_v1/v2/v3 called with nb_steps < 2 fails with the
\* error InvalidStepCount and returns no trajectory.
C14_AsStated ==
    (call.op \in MouvementOps /\ call.n < 2) =>
        /\ result.status = "InvalidStepCount"
        /\ result.value = <<>>

\* C15: SOM.MSE called with an empty data set fails with an error (the
\* ZeroDivisionError of s / nsamples) rather than returning a number, and
\* leaves every neuron's weights and the activity map unchanged; called with
\* exactly one sample x it returns exactly the square of the smallest
\* activation, the activations being the distances between x and the neurons'
\* weights.
C15_MSEEdgeCases ==
    [][call'.op = "MSE" =>
         /\ Len(call'.data) = 0 =>
               /\ result'.status = "ZeroDivisionError"
               /\ result'.value = <<>>
               /\ activitymap' = activitymap
               /\ \A p \in Pos : map'[p].weights = map[p].weights
         /\ Len(call'.data) = 1 =>
               /\ result'.status = "ok"
               /\ \A p \in Pos :
                     IsDistance(activitymap'[p], call'.data[1], map[p].weights)
               /\ \E p \in Pos :
                     /\ \A q \in Pos : FLe(activitymap'[p], activitymap'[q])
                     /\ result'.value = Sq(activitymap'[p])]_vars

\* C15 happens: MSE has been called with an empty data set on a map whose
\* activity map held non-zero activations, two of them different, and has
\* failed.
C15_Witness ==
    /\ call.op = "MSE"
    /\ call.data = <<>>
    /\ result.status = "ZeroDivisionError"
    /\ \E p, q \in Pos :
          /\ activitymap[p] # Zero
          /\ activitymap[q] # Zero
          /\ activitymap[p] # activitymap[q]

\* Position q comes before position p in row-major order.
RowMajorBefore(q, p) == q[1] < p[1] \/ (q[1] = p[1] /\ q[2] < p[2])

\* p is the first position in row-major order whose entry of am is minimal.
IsFirstMinimal(am, p) ==
    \A q \in Pos :
        /\ FLe(am[p], am[q])
        /\ RowMajorBefore(q, p) => am[q] # am[p]

\* The weights of neuron n pulled toward x by the Kohonen rule with the
\* winner at position w.
PulledToward(n, eta, sigma, w, x) ==
    LET d == Abs(n.posx - w[1]) + Abs(n.posy - w[2])
        h == ExpNeg(FDiv(Int2F(d * d), FMul(Int2F(2), FMul(sigma, sigma))))
    IN [i \in 1..Len(n.weights) |->
           FAdd(n.weights[i], FMul(FMul(eta, h), FSub(x[i], n.weights[i])))]

\* C16: SOM.learn(eta, sigma, x) takes as winner the first position in
\* row-major order whose activity map entry is minimal, reading the activity
\* map as the most recent compute or MSE left it (the distances to that call's
\* input, not to x); x plays no part in choosing the winner; so compute(x1)
\* followed by learn(eta, sigma, x2) pulls every neuron toward x2 with the
\* neighbourhood centred on the best matching unit of x1, and that unit does
\* not end farther from x2 than it was.
C16_LearnUsesStaleWinner ==
    [][nlearn' = nlearn + 1 =>
         /\ \E w \in Pos : IsFirstMinimal(activitymap, w)
         /\ \A i \in 1..Len(LastInput) : \A p \in Pos :
               IsDistance(activitymap[p], LastInput[i], map[p].weights)
         /\ \A w \in Pos : IsFirstMinimal(activitymap, w) =>
               /\ \A p \in Pos :
                     map'[p].weights =
                         PulledToward(map[p], call'.eta, call'.sigma, w, call'.x)
               /\ FLe(Dist2(call'.x, map'[w].weights),
                      Dist2(call'.x, map[w].weights))]_vars

\* C16 happens: compute(x1) and then learn(eta, sigma, x2) have run on a fresh
\* map with x2 # x1, the best matching unit of x1 is not the neuron nearest to
\* x2, and it has moved strictly closer to x2.
C16_Witness ==
    \E seed \in Seeds, x1 \in Samples :
        LET m0 == InitMap(seed)
            am1 == ComputeActivity(m0, activitymap, x1)
            w == Bmu(am1)
        IN /\ call.op = "learn"
           /\ call.x # x1
           /\ activitymap = am1
           /\ map = LearnMap(ComputeMap(m0, x1), am1, call.eta, call.sigma, call.x)
           /\ w # Bmu(ComputeActivity(m0, am1, call.x))
           /\ FLt(Dist2(call.x, map[w].weights), Dist2(call.x, m0[w].weights))

====
